---- MODULE Spec2Model ----
(***************************************************************************)
(* PuppyCamera: the photo lifecycle of src/App.tsx (uploads ->             *)
(* processingQueue -> dispensedPhotos), the stacking counter               *)
(* highestZIndex, and the asynchronous processPhotos run with its          *)
(* suspension points.                                                      *)
(*                                                                         *)
(* Execution model: the browser event loop runs one handler or one promise *)
(* continuation at a time; React commits the state updates a handler       *)
(* enqueued and re-renders before the next event is dispatched, so a       *)
(* handler reads the committed state, while the continuation of an async   *)
(* function keeps the values its closure captured when it was called.      *)
(***************************************************************************)
EXTENDS Integers, Sequences, FiniteSets, TLC

\* ---------------------------------------------------------------- bounds
MaxId == 2          \* number of source images ever created
MaxIssue == 3       \* number of increments of highestZIndex
MaxFiles == 2       \* files selected in one file-picker change event
RandDen == 4        \* Math.random() takes the values 0/RandDen .. (RandDen-1)/RandDen
MaxDim == 6         \* largest source image width and height
MaxWidth == 12      \* largest requested frame width besides the default

Captions == {"", "a"}

\* scales are counted in tenths: 1 is 10, the limits 0.5 and 2.5 are 5 and 25
ScaleOne == 10
ScaleMin == 5
ScaleMax == 25
\* the increments a caller asks for: the buttons' +0.1 and -0.1, and steps
\* larger than the whole range
Deltas == {-30, -1, 1, 30}
ZInit == 10         \* useRef(10)

VARIABLES
    uploads,          \* useState<UploadedPhoto[]>: Seq of [id, caption]
    processingQueue,  \* useState<FramedPhotoData[]>: Seq of artifacts
    dispensedPhotos,  \* useState<FramedPhotoData[]>: Seq of placed items
    isProcessing,     \* useState(false)
    progress,         \* useState(0), whole percent
    highestZIndex,    \* useRef(10)
    runs,             \* activations of processPhotos suspended at an await
    nextId,           \* next fresh photo id
    framedLog,        \* history: ids handed to createPolaroidFrame, in order
    enqLog,           \* history: ids appended to processingQueue, in order
    placedLog,        \* history: ids appended to dispensedPhotos, in order
    issued,           \* history: stacking indices assigned to items, in order
    removed,          \* history: ids given to removeUpload/deleteDispensedPhoto
                      \*          while present in the owning collection
    inp,              \* arguments of the computation under study (scatter
                      \*   of ejectPhoto, geometry of createPolaroidFrame)
    out               \* its result, NoValue until it has run

vars == <<uploads, processingQueue, dispensedPhotos, isProcessing, progress,
          highestZIndex, runs, nextId,
          framedLog, enqLog, placedLog, issued, removed, inp, out>>

pure == <<inp, out>>
life == <<uploads, processingQueue, dispensedPhotos, isProcessing, progress,
          highestZIndex, runs, nextId,
          framedLog, enqLog, placedLog, issued, removed>>
NoValue == [kind |-> "none"]

hist == <<framedLog, enqLog, placedLog, issued, removed>>

\* ---------------------------------------------------------------- helpers
Ids(s) == {s[k].id : k \in 1..Len(s)}
IdSeq(s) == [k \in 1..Len(s) |-> s[k].id]
Range(s) == {s[k] : k \in 1..Len(s)}
NoDup(s) == \A a, b \in 1..Len(s) : a # b => s[a] # s[b]

\* ((i + 1) / total) * 100, kept to the whole percent
PercentOffByOne(done, total) == ((done - 1) * 100) \div total
Percent(done, total) == (done * 100) \div total

\* createPolaroidFrame(photo.url, photo.caption) resolved: the bitmap is a
\* function of the source and of the caption burned into it
FramedUrl(photo) == [url |-> photo.id, text |-> photo.caption]

\* the object pushed onto newQueue
FramedPhoto(photo) ==
    [id |-> photo.id, framedUrl |-> FramedUrl(photo), zIndex |-> 0,
     scale |-> ScaleOne]

Init ==
    /\ uploads = <<>>
    /\ processingQueue = <<>>
    /\ dispensedPhotos = <<>>
    /\ isProcessing = FALSE
    /\ progress = 0
    /\ highestZIndex = ZInit
    /\ runs = <<>>
    /\ nextId = 1
    /\ framedLog = <<>>
    /\ enqLog = <<>>
    /\ placedLog = <<>>
    /\ issued = <<>>
    /\ removed = {}
    /\ inp = NoValue
    /\ out = NoValue

\* ------------------------------------------------------- pending uploads
NewFiles(n) == [k \in 1..n |-> [id |-> nextId + k - 1, caption |-> ""]]

handleFileUpload ==
    \E n \in 1..MaxFiles :
        /\ nextId + n - 1 <= MaxId
        /\ uploads' = uploads \o NewFiles(n)
        /\ UNCHANGED pure
        /\ nextId' = nextId + n
        /\ UNCHANGED <<processingQueue, dispensedPhotos, isProcessing,
                       progress, highestZIndex, runs>>
        /\ UNCHANGED hist

removeUploadOf(id) ==
    /\ UNCHANGED pure
    /\ uploads' = SelectSeq(uploads, LAMBDA p : p.id # id)
    /\ removed' = IF id \in Ids(uploads) THEN removed \cup {id} ELSE removed
    /\ UNCHANGED <<processingQueue, dispensedPhotos, isProcessing,
                   progress, highestZIndex, runs,
                   nextId, framedLog, enqLog, placedLog, issued>>

removeUpload == \E id \in 1..MaxId : removeUploadOf(id)

updateCaptionOf(id, text) ==
    /\ UNCHANGED pure
    /\ uploads' = [k \in 1..Len(uploads) |->
                     IF uploads[k].id = id
                     THEN [uploads[k] EXCEPT !.caption = text]
                     ELSE uploads[k]]
    /\ UNCHANGED <<processingQueue, dispensedPhotos, isProcessing,
                   progress, highestZIndex, runs,
                   nextId>>
    /\ UNCHANGED hist

updateCaption ==
    \E id \in 1..MaxId, text \in Captions : updateCaptionOf(id, text)

\* ---------------------------------------------------------------- camera
\* snapPhoto's grabFrame().then: the captured frame joins the pending
\* uploads.  The camera stream itself (startCamera, stopCamera, the flash)
\* never touches the collections, and a grab can be outstanding in any
\* state, so the continuation is enabled whenever an id is left.
snapPhotoThen ==
    /\ UNCHANGED pure
    /\ nextId <= MaxId
    /\ uploads' = Append(uploads, [id |-> nextId, caption |-> ""])
    /\ nextId' = nextId + 1
    /\ UNCHANGED <<processingQueue, dispensedPhotos, isProcessing, progress,
                   highestZIndex, runs>>
    /\ UNCHANGED hist

\* ---------------------------------------------------------- processPhotos
\* if (uploads.length === 0 || isProcessing) return;
DevelopRejectedNoFlag == Len(uploads) = 0
DevelopRejectedOnlyFlag == isProcessing
DevelopRejected == Len(uploads) = 0 \/ isProcessing

NoPhoto == [id |-> 0, caption |-> ""]

\* the activation record of one call: the uploads array its closure
\* captured, the loop locals, and where it is suspended
\*   pc = "feed"  : await setTimeout 800
\*   pc = "frame" : await createPolaroidFrame(uploads[i])
\*   pc = "pace"  : await setTimeout 600
\* framed/failed record what this run handed to the Framer and what the
\* Framer rejected (the console.error log); rejected records that a further
\* processPhotos call returned at the guard while this run was suspended
NewRun ==
    [pc |-> "feed", uploads |-> uploads, total |-> 0, i |-> 0,
     photo |-> NoPhoto, newQueue |-> <<>>, framed |-> <<>>, failed |-> {},
     rejected |-> FALSE]

processPhotos ==
    /\ UNCHANGED pure
    /\ IF DevelopRejected
       THEN /\ runs' = [r \in 1..Len(runs) |->
                          [runs[r] EXCEPT !.rejected = TRUE]]
            /\ UNCHANGED <<uploads, processingQueue, dispensedPhotos,
                           isProcessing, progress, highestZIndex, nextId>>
       ELSE /\ isProcessing' = TRUE
            /\ progress' = 0
            /\ runs' = Append(runs, NewRun)
            /\ UNCHANGED <<uploads, processingQueue, dispensedPhotos,
                           highestZIndex, nextId>>
    /\ UNCHANGED hist

RemoveAt(s, r) == [k \in 1..(Len(s) - 1) |-> IF k < r THEN s[k] ELSE s[k + 1]]

\* const total = uploads.length;   const photo = uploads[i];
TotalOfLive(run) == Len(uploads)
TotalOf(run) == Len(run.uploads)
PhotoAtLive(run, k) == IF k <= Len(uploads) THEN uploads[k] ELSE run.uploads[k]
PhotoAt(run, k) == run.uploads[k]

\* newQueue.push({...})
PushFront(newQueue, photo) == <<FramedPhoto(photo)>> \o newQueue
Push(newQueue, photo) == Append(newQueue, FramedPhoto(photo))

\* catch (err) { console.error(...) }: the loop goes on to setProgress and
\* the pacing delay
CaughtThrow(run, photo) ==
    [run EXCEPT !.pc = "dead", !.failed = @ \cup {photo.id}]
CaughtBreak(run, photo) ==
    [run EXCEPT !.pc = "pace", !.i = run.total, !.failed = @ \cup {photo.id}]
Caught(run, photo) ==
    [run EXCEPT !.pc = "pace", !.failed = @ \cup {photo.id}]

\* setProcessingQueue((prev) => [...prev, ...newQueue])
QueueAfterPrepend(prev, newQueue) == newQueue \o prev
QueueAfter(prev, newQueue) == prev \o newQueue

\* the loop test i < total, then either the next createPolaroidFrame call
\* or the four state updates after the loop
LoopOrFinish(r, run, k) ==
    IF k <= run.total
    THEN /\ runs' = [runs EXCEPT ![r] =
                       [run EXCEPT !.pc = "frame", !.i = k,
                                   !.photo = PhotoAt(run, k),
                                   !.framed = Append(@, PhotoAt(run, k).id)]]
         /\ framedLog' = Append(framedLog, PhotoAt(run, k).id)
         /\ UNCHANGED <<uploads, processingQueue, isProcessing, progress,
                        enqLog>>
    ELSE /\ processingQueue' = QueueAfter(processingQueue, run.newQueue)
         /\ uploads' = <<>>
         /\ isProcessing' = FALSE
         /\ progress' = 0
         /\ runs' = RemoveAt(runs, r)
         /\ enqLog' = enqLog \o IdSeq(run.newQueue)
         /\ UNCHANGED framedLog

\* the 800 ms feeding delay is over: the loop starts
feedDone(r) ==
    /\ UNCHANGED pure
    /\ runs[r].pc = "feed"
    /\ LET run == [runs[r] EXCEPT !.total = TotalOf(runs[r])]
       IN  LoopOrFinish(r, run, 1)
    /\ UNCHANGED <<dispensedPhotos, highestZIndex,
                   nextId, placedLog, issued, removed>>

\* createPolaroidFrame resolved
frameResolved(r) ==
    /\ UNCHANGED pure
    /\ runs[r].pc = "frame"
    /\ LET run == runs[r]
           photo == run.photo
       IN  /\ runs' = [runs EXCEPT ![r] =
                         [run EXCEPT !.pc = "pace",
                                     !.newQueue = Push(@, photo)]]
           /\ progress' = Percent(run.i, run.total)
    /\ UNCHANGED <<uploads, processingQueue, dispensedPhotos, isProcessing,
                   highestZIndex, nextId>>
    /\ UNCHANGED hist

\* createPolaroidFrame rejected (img.onerror, or no 2d context)
frameRejected(r) ==
    /\ UNCHANGED pure
    /\ runs[r].pc = "frame"
    /\ LET run == runs[r]
           photo == run.photo
       IN  /\ runs' = [runs EXCEPT ![r] = Caught(run, photo)]
           /\ progress' = Percent(run.i, run.total)
    /\ UNCHANGED <<uploads, processingQueue, dispensedPhotos, isProcessing,
                   highestZIndex, nextId>>
    /\ UNCHANGED hist

\* the 600 ms pacing delay is over: i++, next item or the end of the run
paceDone(r) ==
    /\ UNCHANGED pure
    /\ runs[r].pc = "pace"
    /\ LoopOrFinish(r, runs[r], runs[r].i + 1)
    /\ UNCHANGED <<dispensedPhotos, highestZIndex,
                   nextId, placedLog, issued, removed>>

\* ------------------------------------------------------------- the desk
\* const [nextPhoto, ...remainingQueue] = processingQueue;
NextPhotoLast(queue) == queue[Len(queue)]
NextPhoto(queue) == Head(queue)
RemainingQueueKept(queue) == queue
RemainingQueue(queue) == Tail(queue)

ejectPhoto ==
    /\ UNCHANGED pure
    /\ IF Len(processingQueue) = 0
       THEN UNCHANGED <<processingQueue, dispensedPhotos, highestZIndex,
                        placedLog, issued>>
       ELSE /\ highestZIndex < ZInit + MaxIssue
            /\ processingQueue' = RemainingQueue(processingQueue)
            /\ dispensedPhotos' =
                  Append(dispensedPhotos,
                         [NextPhoto(processingQueue)
                            EXCEPT !.zIndex = highestZIndex,
                                   !.scale = ScaleOne])
            /\ highestZIndex' = highestZIndex + 1
            /\ placedLog' = Append(placedLog, NextPhoto(processingQueue).id)
            /\ issued' = Append(issued, highestZIndex)
    /\ UNCHANGED <<uploads, isProcessing, progress, runs,
                   nextId, framedLog, enqLog, removed>>

deleteDispensedPhotoOf(id) ==
    /\ UNCHANGED pure
    /\ dispensedPhotos' = SelectSeq(dispensedPhotos, LAMBDA p : p.id # id)
    /\ removed' = IF id \in Ids(dispensedPhotos)
                  THEN removed \cup {id} ELSE removed
    /\ UNCHANGED <<uploads, processingQueue, isProcessing, progress,
                   highestZIndex, runs, nextId,
                   framedLog, enqLog, placedLog, issued>>

deleteDispensedPhoto == \E id \in 1..MaxId : deleteDispensedPhotoOf(id)

\* Math.max(0.5, Math.min(2.5, (p.scale || 1) + delta))
Min2(a, b) == IF a < b THEN a ELSE b
Max2(a, b) == IF a > b THEN a ELSE b
ScaleOr1(scale) == IF scale = 0 THEN ScaleOne ELSE scale
NewScaleNoFloor(scale, delta) == Min2(ScaleMax, ScaleOr1(scale) + delta)
NewScale(scale, delta) ==
    Max2(ScaleMin, Min2(ScaleMax, ScaleOr1(scale) + delta))

updatePhotoScaleOf(id, delta) ==
    /\ UNCHANGED pure
    /\ dispensedPhotos' =
          [k \in 1..Len(dispensedPhotos) |->
             IF dispensedPhotos[k].id = id
             THEN [dispensedPhotos[k] EXCEPT
                     !.scale = NewScale(dispensedPhotos[k].scale, delta)]
             ELSE dispensedPhotos[k]]
    /\ UNCHANGED <<uploads, processingQueue, isProcessing, progress,
                   highestZIndex, runs, nextId>>
    /\ UNCHANGED hist

updatePhotoScale ==
    \E id \in 1..MaxId, delta \in Deltas : updatePhotoScaleOf(id, delta)

handleDragStartOf(id) ==
    /\ UNCHANGED pure
    /\ highestZIndex < ZInit + MaxIssue
    /\ highestZIndex' = highestZIndex + 1
    /\ dispensedPhotos' =
          [k \in 1..Len(dispensedPhotos) |->
             IF dispensedPhotos[k].id = id
             THEN [dispensedPhotos[k] EXCEPT !.zIndex = highestZIndex']
             ELSE dispensedPhotos[k]]
    /\ issued' = IF id \in Ids(dispensedPhotos)
                 THEN Append(issued, highestZIndex') ELSE issued
    /\ UNCHANGED <<uploads, processingQueue, isProcessing, progress,
                   runs, nextId, framedLog, enqLog,
                   placedLog, removed>>

handleDragStart == \E id \in 1..MaxId : handleDragStartOf(id)

\* -------------------------------------------------------------- scatter
\* The position and rotation ejectPhoto computes, as a function of the desk
\* element's client size and of three Math.random() values.  A random value
\* is k / RandDen with k in 0 .. RandDen-1 (Math.random() < 1); positions
\* and the rotation are kept as numerators over RandDen.
Padding == 50
FootprintWidth == 150
FootprintHeight == 200
DefaultDeskWidth == 300
DefaultDeskHeight == 500
ClientWidths == {0, 100, 249, 250, 251, 300, 400}
ClientHeights == {0, 200, 299, 300, 301, 500, 800}
Rand == 0..(RandDen - 1)

\* deskRef.current?.clientWidth || 300
DeskWidth(clientWidth) ==
    IF clientWidth = 0 THEN DefaultDeskWidth ELSE clientWidth
DeskHeight(clientHeight) ==
    IF clientHeight = 0 THEN DefaultDeskHeight ELSE clientHeight

\* Math.random() * (deskWidth - 150 - padding * 2) + padding
RandomXNoFootprint(deskWidth, k) ==
    k * (deskWidth - Padding * 2) + Padding * RandDen
RandomX(deskWidth, k) ==
    k * (deskWidth - FootprintWidth - Padding * 2) + Padding * RandDen
RandomY(deskHeight, k) ==
    k * (deskHeight - FootprintHeight - Padding * 2) + Padding * RandDen
\* Math.random() * 40 - 20
RandomRot(k) == k * 40 - 20 * RandDen

ScatterInputs ==
    [kind : {"scatter"}, clientWidth : ClientWidths,
     clientHeight : ClientHeights, rx : Rand, ry : Rand, rrot : Rand]

InitScatter ==
    /\ uploads = <<>>
    /\ processingQueue = <<>>
    /\ dispensedPhotos = <<>>
    /\ isProcessing = FALSE
    /\ progress = 0
    /\ highestZIndex = ZInit
    /\ runs = <<>>
    /\ nextId = 1
    /\ framedLog = <<>>
    /\ enqLog = <<>>
    /\ placedLog = <<>>
    /\ issued = <<>>
    /\ removed = {}
    /\ inp \in ScatterInputs
    /\ out = NoValue

scatter ==
    /\ inp.kind = "scatter"
    /\ out = NoValue
    /\ LET deskWidth == DeskWidth(inp.clientWidth)
           deskHeight == DeskHeight(inp.clientHeight)
       IN  out' = [kind |-> "placed",
                   deskWidth |-> deskWidth, deskHeight |-> deskHeight,
                   x |-> RandomX(deskWidth, inp.rx),
                   y |-> RandomY(deskHeight, inp.ry),
                   rotation |-> RandomRot(inp.rrot)]
    /\ UNCHANGED inp
    /\ UNCHANGED life

NextScatter == scatter

ScatterSpec == InitScatter /\ [][NextScatter]_vars

\* ------------------------------------------------- createPolaroidFrame
\* The geometry createPolaroidFrame computes once the image is decoded, as
\* a function of the image's size and of the requested width.  Lengths of
\* the frame are kept in hundredths (width * 0.08, width * 1.25), the crop
\* offsets in halves ((img.width - img.height) / 2).
DefaultWidth == 600
TargetWidths == (1..MaxWidth) \cup {DefaultWidth}

HeightRatio100 == 125        \* width * 1.25
PaddingRatio100 == 8         \* width * 0.08

FrameWidth100(width) == width * 100
FrameHeight100Square(width) == width * 100
FrameHeight100(width) == width * HeightRatio100
FramePadding100(width) == width * PaddingRatio100
PhotoWidth100(width) == FrameWidth100(width) - FramePadding100(width) * 2
PhotoHeight100(width) == PhotoWidth100(width)

\* canvas.width = ..., canvas.height = ...: the attributes are unsigned
\* long, the fraction of the assigned number is dropped
CanvasDim(v100) == v100 \div 100

\* sourceAspect > 1 with sourceAspect = img.width / img.height
SourceIsWide(w, h) == w > h
CropSx2Uncentred(w, h) == IF SourceIsWide(w, h) THEN 2 * (w - h) ELSE 0
CropSx2(w, h) == IF SourceIsWide(w, h) THEN w - h ELSE 0
CropSy2(w, h) == IF SourceIsWide(w, h) THEN 0 ELSE h - w
CropSWidth(w, h) == IF SourceIsWide(w, h) THEN h ELSE w
CropSHeight(w, h) == IF SourceIsWide(w, h) THEN h ELSE w

\* bottomAreaTop = padding + photoHeight;
\* bottomAreaHeight = frameHeight - bottomAreaTop
BottomAreaTop100(width) == FramePadding100(width) + PhotoHeight100(width)
BottomAreaHeight100(width) == FrameHeight100(width) - BottomAreaTop100(width)

FrameInputs ==
    [kind : {"frame"}, imgWidth : 1..MaxDim, imgHeight : 1..MaxDim,
     width : TargetWidths]

InitFramer ==
    /\ uploads = <<>>
    /\ processingQueue = <<>>
    /\ dispensedPhotos = <<>>
    /\ isProcessing = FALSE
    /\ progress = 0
    /\ highestZIndex = ZInit
    /\ runs = <<>>
    /\ nextId = 1
    /\ framedLog = <<>>
    /\ enqLog = <<>>
    /\ placedLog = <<>>
    /\ issued = <<>>
    /\ removed = {}
    /\ inp \in FrameInputs
    /\ out = NoValue

createPolaroidFrame ==
    /\ inp.kind = "frame"
    /\ out = NoValue
    /\ out' = [kind |-> "framed",
               canvasWidth |-> CanvasDim(FrameWidth100(inp.width)),
               canvasHeight |-> CanvasDim(FrameHeight100(inp.width)),
               padding |-> FramePadding100(inp.width),
               photoWidth |-> PhotoWidth100(inp.width),
               photoHeight |-> PhotoHeight100(inp.width),
               sx2 |-> CropSx2(inp.imgWidth, inp.imgHeight),
               sy2 |-> CropSy2(inp.imgWidth, inp.imgHeight),
               sWidth |-> CropSWidth(inp.imgWidth, inp.imgHeight),
               sHeight |-> CropSHeight(inp.imgWidth, inp.imgHeight),
               bottomAreaTop |-> BottomAreaTop100(inp.width),
               bottomAreaHeight |-> BottomAreaHeight100(inp.width)]
    /\ UNCHANGED inp
    /\ UNCHANGED life

NextFramer == createPolaroidFrame

FramerSpec == InitFramer /\ [][NextFramer]_vars

\* ------------------------------------------------------- specifications
RunStep ==
    \E r \in 1..Len(runs) :
        feedDone(r) \/ frameResolved(r) \/ frameRejected(r) \/ paceDone(r)

Next ==
    \/ handleFileUpload
    \/ removeUpload
    \/ updateCaption
    \/ snapPhotoThen
    \/ processPhotos
    \/ \E r \in 1..Len(runs) : feedDone(r)
    \/ \E r \in 1..Len(runs) : frameResolved(r)
    \/ \E r \in 1..Len(runs) : frameRejected(r)
    \/ \E r \in 1..Len(runs) : paceDone(r)
    \/ ejectPhoto
    \/ deleteDispensedPhoto
    \/ handleDragStart

Spec == Init /\ [][Next]_vars

\* The develop run on its own.  ejectPhoto, deleteDispensedPhoto and
\* handleDragStart neither read nor write uploads, isProcessing, progress or
\* the suspended run (see their UNCHANGED lists), so the run's progress is
\* studied without them.  Timers fire and the Framer's promise settles:
\* every continuation of a suspended run is eventually scheduled.
NextDevelop ==
    \/ handleFileUpload
    \/ snapPhotoThen
    \/ removeUpload
    \/ updateCaption
    \/ processPhotos
    \/ \E r \in 1..Len(runs) : feedDone(r)
    \/ \E r \in 1..Len(runs) : frameResolved(r)
    \/ \E r \in 1..Len(runs) : frameRejected(r)
    \/ \E r \in 1..Len(runs) : paceDone(r)

DevelopFairSpec == Init /\ [][NextDevelop]_vars /\ WF_vars(RunStep)

\* The desk with its zoom buttons.  updatePhotoScale reads and writes only
\* the scale of placed items; the items get there through upload, develop
\* and eject, so those are the other steps of this specification.
NextScale ==
    \/ handleFileUpload
    \/ processPhotos
    \/ \E r \in 1..Len(runs) : feedDone(r)
    \/ \E r \in 1..Len(runs) : frameResolved(r)
    \/ \E r \in 1..Len(runs) : paceDone(r)
    \/ ejectPhoto
    \/ updatePhotoScale
    \/ deleteDispensedPhoto

ScaleSpec == Init /\ [][NextScale]_vars

\* ----------------------------------------------------------- properties
InFlight == Len(runs) > 0
Finishing == Len(runs') < Len(runs)
Survivors(run) == SelectSeq(IdSeq(run.uploads), LAMBDA id : id \notin run.failed)
Occurrences(s, x) == Cardinality({k \in 1..Len(s) : s[k] = x})

\* C1: every stacking index assigned to an item (by ejectPhoto or by
\* handleDragStart) is strictly greater than every index assigned before it.
C1_IssuedStrictlyIncreasing ==
    \A a, b \in 1..Len(issued) : a < b => issued[a] < issued[b]

\* C2: at most one processPhotos run is in flight; a call made while a run
\* is suspended starts no second run, leaves progress, the flag and the
\* collections alone, and nothing is framed or queued twice.
C2_SingleRun ==
    /\ [](Len(runs) <= 1 /\ (InFlight => isProcessing)
           /\ NoDup(framedLog) /\ NoDup(enqLog)
           /\ NoDup(IdSeq(processingQueue)))
    /\ [][(InFlight /\ processPhotos)
            => /\ UNCHANGED <<uploads, processingQueue, dispensedPhotos,
                              isProcessing, progress, highestZIndex,
                              framedLog, enqLog>>
               /\ Len(runs') = Len(runs)
               /\ \A r \in 1..Len(runs) :
                     runs'[r] = [runs[r] EXCEPT !.rejected = TRUE]]_vars

C2_Witness ==
    /\ Len(runs) = 1
    /\ runs[1].rejected
    /\ runs[1].pc = "frame"
    /\ Len(uploads) > 0
    /\ isProcessing

\* C3: items enter dispensedPhotos in exactly the order in which they were
\* appended to processingQueue, and the queue holds the not yet released
\* rest in that order.
C3_ReleaseFifo == enqLog = placedLog \o IdSeq(processingQueue)

C3_Witness ==
    /\ Len(placedLog) = 2
    /\ Len(dispensedPhotos) = 2
    /\ processingQueue = <<>>

\* C4: when a run ends, processingQueue is the old queue followed by the
\* artifacts of the items that were framed successfully, in the order the
\* items had in uploads when the run was called.
C4_DevelopKeepsOrder ==
    [][Finishing =>
         \E r \in 1..Len(runs) :
            /\ runs' = RemoveAt(runs, r)
            /\ IdSeq(processingQueue') =
                  IdSeq(processingQueue) \o Survivors(runs[r])]_vars

C4_Witness ==
    /\ ~InFlight
    /\ uploads = <<>>
    /\ Len(processingQueue) = 2
    /\ framedLog = IdSeq(processingQueue)

\* C5: a rejected createPolaroidFrame does not end the batch: every item of
\* the captured uploads is handed to the Framer, once, in order, and when
\* the run ends a failed item is neither pending nor queued.
C5_FailureDoesNotAbort ==
    /\ [](\A r \in 1..Len(runs) :
            /\ runs[r].pc \in {"feed", "frame", "pace"}
            /\ runs[r].framed = SubSeq(IdSeq(runs[r].uploads), 1, runs[r].i)
            /\ \A f \in runs[r].failed : Occurrences(framedLog, f) = 1)
    /\ [][Finishing =>
            \E r \in 1..Len(runs) :
               /\ runs' = RemoveAt(runs, r)
               /\ runs[r].framed = IdSeq(runs[r].uploads)
               /\ \A f \in runs[r].failed :
                     /\ f \notin Ids(uploads')
                     /\ f \notin Ids(processingQueue')]_vars

C5_Witness ==
    \E r \in 1..Len(runs) :
        /\ Len(runs[r].framed) = 2
        /\ runs[r].failed = {runs[r].framed[1]}
        /\ runs[r].pc = "pace"
        /\ Len(runs[r].newQueue) = 1

\* C6: an id that was added to uploads is still there unless it was given
\* to removeUpload or handed to the Framer.
C6_PendingLeavesByRemovalOrFraming ==
    \A id \in 1..(nextId - 1) :
        id \in Ids(uploads) \cup removed \cup Range(framedLog)

\* C7: a run frames and queues only items of the uploads array it was called
\* with, with the captions they had then, and by its end it has framed all
\* of them; items that joined uploads later are not touched by it.
C7_RunProcessesSnapshot ==
    /\ [](\A r \in 1..Len(runs) :
            /\ Range(runs[r].framed) \subseteq Ids(runs[r].uploads)
            /\ \A k \in 1..Len(runs[r].newQueue) :
                  \E p \in Range(runs[r].uploads) :
                     runs[r].newQueue[k] = FramedPhoto(p)
            /\ \A id \in Ids(uploads) \ Ids(runs[r].uploads) :
                  id \notin Range(runs[r].framed))
    /\ [][Finishing =>
            \E r \in 1..Len(runs) :
               /\ runs' = RemoveAt(runs, r)
               /\ runs[r].framed = IdSeq(runs[r].uploads)
               /\ Ids(processingQueue') \ Ids(processingQueue)
                     \subseteq Ids(runs[r].uploads)]_vars

C7_Witness ==
    \E r \in 1..Len(runs) :
        /\ runs[r].pc = "pace"
        /\ runs[r].i = runs[r].total
        /\ Ids(uploads) \ Ids(runs[r].uploads) # {}

\* C8: an id that removeUpload or deleteDispensedPhoto took out of its
\* collection is in none of uploads, processingQueue, dispensedPhotos.
C8_RemovedIsTerminal ==
    removed \cap (Ids(uploads) \cup Ids(processingQueue)
                    \cup Ids(dispensedPhotos)) = {}

\* C9: a run in flight leads to the state where no run is in flight, the
\* flag is cleared, uploads is empty and progress is 0.
C9_DevelopCompletes ==
    InFlight ~> (~InFlight /\ ~isProcessing /\ uploads = <<>> /\ progress = 0)

C9_Witness ==
    /\ ~InFlight /\ ~isProcessing /\ uploads = <<>> /\ progress = 0
    /\ Len(framedLog) = 2
    /\ Len(enqLog) = 1

\* C10: no artifact is both queued and placed, and none is placed twice.
C10_ConsumedOnce ==
    /\ Ids(processingQueue) \cap Ids(dispensedPhotos) = {}
    /\ NoDup(placedLog)
    /\ NoDup(IdSeq(dispensedPhotos))
    /\ Ids(dispensedPhotos) \subseteq Range(placedLog)

C10_Witness ==
    /\ Len(placedLog) = 1
    /\ placedLog[1] \in removed
    /\ dispensedPhotos = <<>>
    /\ Len(processingQueue) = 1

\* C11: every placed item's scale is within [0.5, 2.5]; an item is placed
\* with scale 1; updatePhotoScale(id, delta) sets the scale of item id to
\* the sum clamped into the range and leaves the other items alone; a
\* positive delta never lowers the scale, a negative one never raises it.
Clamp(v, lo, hi) == IF v < lo THEN lo ELSE IF v > hi THEN hi ELSE v

C11_ScaleBounded ==
    /\ [](\A k \in 1..Len(dispensedPhotos) :
            dispensedPhotos[k].scale \in ScaleMin..ScaleMax)
    /\ [][\A k \in 1..Len(dispensedPhotos') :
            k > Len(dispensedPhotos) /\ Len(placedLog') > Len(placedLog)
              => dispensedPhotos'[k].scale = 10]_vars
    /\ [][\A id \in 1..MaxId, delta \in Deltas :
            updatePhotoScaleOf(id, delta) =>
              /\ Len(dispensedPhotos') = Len(dispensedPhotos)
              /\ \A k \in 1..Len(dispensedPhotos) :
                    LET old == dispensedPhotos[k].scale
                        new == dispensedPhotos'[k].scale
                    IN  IF dispensedPhotos[k].id = id
                        THEN /\ new = Clamp(old + delta, 5, 25)
                             /\ delta > 0 => new >= old
                             /\ delta < 0 => new <= old
                        ELSE new = old]_vars

C11_Witness ==
    /\ Len(dispensedPhotos) = 2
    /\ dispensedPhotos[1].scale = 5
    /\ dispensedPhotos[2].scale = 25

\* C12 as claimed: for every desk width W and height H the position keeps
\* the 150x200 footprint 50 units inside every edge.
C12_MarginEverySurface ==
    out.kind = "placed" =>
        /\ 50 * RandDen <= out.x
        /\ out.x + 150 * RandDen <= (out.deskWidth - 50) * RandDen
        /\ 50 * RandDen <= out.y
        /\ out.y + 200 * RandDen <= (out.deskHeight - 50) * RandDen

\* C12 amended: the horizontal margin is kept when W >= 250, the vertical
\* one when H >= 300 (the footprint plus both margins fits).
C12_MarginWhenFits ==
    out.kind = "placed" =>
        /\ out.deskWidth >= 250 =>
              /\ 50 * RandDen <= out.x
              /\ out.x + 150 * RandDen <= (out.deskWidth - 50) * RandDen
        /\ out.deskHeight >= 300 =>
              /\ 50 * RandDen <= out.y
              /\ out.y + 200 * RandDen <= (out.deskHeight - 50) * RandDen

C12_Witness ==
    /\ out.kind = "placed"
    /\ out.deskWidth = 251 /\ inp.rx = RandDen - 1
    /\ out.deskHeight = 301 /\ inp.ry = RandDen - 1

\* C13: removeUpload, updateCaption, deleteDispensedPhoto, updatePhotoScale
\* and handleDragStart called with an id that is not in the collection they
\* work on leave uploads, processingQueue, dispensedPhotos and the stacking
\* counter unchanged.
C13_AbsentIdIsNoOp ==
    [][\A id \in 1..MaxId :
         (\/ /\ id \notin Ids(uploads)
             /\ \/ removeUploadOf(id)
                \/ \E text \in Captions : updateCaptionOf(id, text)
          \/ /\ id \notin Ids(dispensedPhotos)
             /\ \/ deleteDispensedPhotoOf(id)
                \/ handleDragStartOf(id)
                \/ \E delta \in Deltas : updatePhotoScaleOf(id, delta))
         => UNCHANGED <<uploads, processingQueue, dispensedPhotos,
                        highestZIndex>>]_vars

\* C14: ejectPhoto with an empty processingQueue and processPhotos with an
\* empty uploads change none of uploads, processingQueue, dispensedPhotos,
\* the stacking counter, isProcessing and progress; no run starts and no
\* stacking index is used.
C14_EmptyIsNoOp ==
    [][(\/ Len(processingQueue) = 0 /\ ejectPhoto
        \/ Len(uploads) = 0 /\ processPhotos)
       => /\ UNCHANGED <<uploads, processingQueue, dispensedPhotos,
                         highestZIndex, isProcessing, progress,
                         placedLog, issued>>
          /\ Len(runs') = Len(runs)]_vars

C14_Witness ==
    /\ Len(uploads) = 0
    /\ Len(processingQueue) = 0
    /\ ~InFlight /\ ~isProcessing /\ progress = 0
    /\ Len(dispensedPhotos) > 0
    /\ highestZIndex > ZInit

\* C15: the crop box is the centred square of side min(w, h) inside the
\* source: for w > h it is ((w - h)/2, 0, h), for h >= w it is
\* (0, (h - w)/2, w); the trim on the two cropped sides is equal.
C15_CentredSquareCrop ==
    out.kind = "framed" =>
        LET w == inp.imgWidth
            h == inp.imgHeight
            side == IF w < h THEN w ELSE h
        IN  /\ out.sWidth = side /\ out.sHeight = side
            /\ w > h => out.sx2 = w - h /\ out.sy2 = 0
            /\ h >= w => out.sx2 = 0 /\ out.sy2 = h - w
            /\ out.sx2 >= 0 /\ out.sx2 + 2 * side <= 2 * w
            /\ out.sy2 >= 0 /\ out.sy2 + 2 * side <= 2 * h
            /\ out.sx2 = 2 * w - (out.sx2 + 2 * side)
            /\ out.sy2 = 2 * h - (out.sy2 + 2 * side)

C15_Witness ==
    /\ out.kind = "framed"
    /\ inp.imgWidth = 4 /\ inp.imgHeight = 1
    /\ out.sx2 = 3

\* the photo region of C16: a square of side width - 2 * padding with
\* padding = 0.08 * width, at (padding, padding), inside the canvas, with a
\* band of positive height between its lower edge and the canvas's
PhotoRegionInCanvas ==
    /\ out.padding = 8 * inp.width
    /\ out.photoWidth = 100 * inp.width - 2 * out.padding
    /\ out.photoHeight = out.photoWidth
    /\ out.padding + out.photoWidth <= 100 * out.canvasWidth
    /\ out.padding + out.photoHeight < 100 * out.canvasHeight
    /\ out.bottomAreaTop = out.padding + out.photoHeight

\* C16 as claimed: the output is targetWidth wide and
\* round(targetWidth * 1.25) high, with the photo region as above.
C16_HeightIsRounded ==
    out.kind = "framed" =>
        /\ out.canvasWidth = inp.width
        /\ out.canvasHeight = (125 * inp.width + 50) \div 100
        /\ PhotoRegionInCanvas

\* C16 amended: the output is targetWidth wide and floor(targetWidth * 1.25)
\* high (which is round(targetWidth * 1.25) when targetWidth mod 4 is 0 or
\* 1, as for the default 600), with the photo region as above.
C16_HeightIsFloored ==
    out.kind = "framed" =>
        /\ out.canvasWidth = inp.width
        /\ 100 * out.canvasHeight <= 125 * inp.width
        /\ 125 * inp.width < 100 * (out.canvasHeight + 1)
        /\ inp.width % 4 \in {0, 1} =>
              out.canvasHeight = (125 * inp.width + 50) \div 100
        /\ PhotoRegionInCanvas

C16_Witness ==
    /\ out.kind = "framed"
    /\ inp.width = 2
    /\ out.canvasHeight = 2

\* C17 as claimed: whenever a run reports progress k/total, the artifacts of
\* the items framed successfully among the first k are already in
\* processingQueue, or have been released from it.
C17_QueuedAsFramed ==
    \A r \in 1..Len(runs) :
        runs[r].pc = "pace" =>
            Ids(runs[r].newQueue) \subseteq
                Ids(processingQueue) \cup Range(placedLog)

\* C17 amended: while a run is in flight its artifacts are held by the run
\* only, none of them is or has been in processingQueue; when the run
\* reports progress k/total it holds exactly the artifacts of the items
\* framed successfully among the first k, in order.  (They reach
\* processingQueue together when the run ends: C4, C18.)
C17_HeldUntilRunEnds ==
    \A r \in 1..Len(runs) :
        LET run == runs[r]
        IN  /\ Ids(run.newQueue) \cap (Ids(processingQueue) \cup Range(enqLog)
                                         \cup Range(placedLog)) = {}
            /\ run.pc = "pace" =>
                  /\ progress = (run.i * 100) \div Len(run.uploads)
                  /\ IdSeq(run.newQueue) =
                        SelectSeq(SubSeq(IdSeq(run.uploads), 1, run.i),
                                  LAMBDA id : id \notin run.failed)

C17_Witness ==
    /\ Len(runs) = 1
    /\ runs[1].pc = "pace"
    /\ runs[1].i = 1
    /\ Len(runs[1].uploads) = 2
    /\ Len(runs[1].newQueue) = 1
    /\ progress = 50
    /\ processingQueue = <<>>

\* C18: releases interleaved with a run neither lose nor duplicate
\* artifacts.  A release during the run takes the head of processingQueue
\* and leaves the run alone; when the run ends processingQueue is what it
\* held at that moment followed by the run's artifacts, nothing released
\* is in it again, nothing is in it twice, and every artifact ever queued is
\* either still queued or has been released.
C18_ReleaseDuringRun ==
    [][/\ Finishing =>
            \E r \in 1..Len(runs) :
               /\ runs' = RemoveAt(runs, r)
               /\ processingQueue' = processingQueue \o runs[r].newQueue
               /\ Ids(processingQueue') \cap Range(placedLog') = {}
               /\ NoDup(IdSeq(processingQueue'))
               /\ Range(enqLog') =
                     Ids(processingQueue') \cup Range(placedLog')
       /\ (InFlight /\ Len(processingQueue) > 0 /\ ejectPhoto) =>
            /\ runs' = runs
            /\ processingQueue' = Tail(processingQueue)
            /\ placedLog' = Append(placedLog, processingQueue[1].id)
            /\ Range(enqLog') =
                  Ids(processingQueue') \cup Range(placedLog')]_vars

C18_Witness ==
    /\ Len(runs) = 1
    /\ runs[1].pc = "pace"
    /\ runs[1].i = Len(runs[1].uploads)
    /\ Len(runs[1].newQueue) = 1
    /\ Len(processingQueue) = 1

====
